---- MODULE Spec2Model ----
(***************************************************************************)
(* A model of the cbitmap crate: the fixed-capacity Bitmap<BYTES>, its     *)
(* single-bit and whole-map operations, the scans, the BitRef and          *)
(* BitRefMut wrappers, the conversions from and into byte arrays and       *)
(* integers, the &, &= and |= operators and fill_prefix.                   *)
(*                                                                         *)
(* A map is the sequence of its bytes (u8 values 0..255); Rust's byte k is *)
(* element k+1 of the sequence.  A call that panics leaves the result      *)
(* record's panic field TRUE.  The variable ret holds what the caller's    *)
(* last call handed back when that was a byte array or an integer.         *)
(***************************************************************************)
EXTENDS Integers, Sequences, FiniteSets

VARIABLES bits, outcome, bitrefs, bitmuts, ret

vars == <<bits, outcome, bitrefs, bitmuts, ret>>

\* ------------------------------------------------------------------ bounds

\* Largest capacity (the const generic BYTES) the core specification explores.
MaxBytes == 2
\* Largest capacity the wrapper specification explores.
RefBytes == 1
\* How many indices past the largest capacity the callers pass.
OobSlack == 2
\* How many BitRef values a caller keeps at once.
MaxRefs == 2
\* How many BitRefMut variables a caller declares.
MaxMuts == 2

\* Largest capacity the specification of the conversions explores.
OpsBytes == 2
\* Largest capacity the specification of the formatting explores.
FmtBytes == 3

\* Largest bit length the specification of the macros passes, 35 apart.
MacroBits == 17
\* Longest byte array the callers of the conversions pass.
MaxSrc == 3

Indices == 0 .. (8 * MaxBytes + OobSlack - 1)
\* Indices far past the end, where a truncated or wrapped index would land
\* on a valid bit.
FarIndices == {2 ^ 8, 2 ^ 8 + 7, 2 ^ 16, 2 ^ 16 + 9, 2 ^ 30 + 1}
RefSlots == 1 .. MaxRefs
MutSlots == 1 .. MaxMuts

\* ------------------------------------------------------- u8 arithmetic

U8 == 0 .. 255

RECURSIVE bitwise(_, _, _, _)
\* A bitwise operator on the low n bits of a and b; op[x][y] is the bit it
\* gives for the bits x and y.
bitwise(op, a, b, n) ==
    IF n = 0 THEN 0
    ELSE op[a % 2][b % 2] + 2 * bitwise(op, a \div 2, b \div 2, n - 1)

AndTable == [a \in U8 |-> [b \in U8 |->
                bitwise([x \in 0 .. 1 |-> [y \in 0 .. 1 |-> x * y]], a, b, 8)]]

OrTable == [a \in U8 |-> [b \in U8 |->
                bitwise([x \in 0 .. 1 |-> [y \in 0 .. 1 |-> (x + y) - (x * y)]], a, b, 8)]]

XorTable == [a \in U8 |-> [b \in U8 |->
                bitwise([x \in 0 .. 1 |-> [y \in 0 .. 1 |-> (x + y) % 2]], a, b, 8)]]

\* a & b for u8 values.
u8_bitand(a, b) == AndTable[a][b]

\* a | b for u8 values.
u8_bitor(a, b) == OrTable[a][b]

\* a ^ b for u8 values.
u8_bitxor(a, b) == XorTable[a][b]

\* !a for a u8.
u8_not(a) == 255 - a

\* a << k for a u8 (k < 8): the bits shifted past bit 7 are lost.
u8_shl(a, k) == (a * (2 ^ k)) % 256

\* a >> k for a u8.
u8_shr(a, k) == a \div (2 ^ k)

\* ------------------------------------------------------ index arithmetic

\* The byte of an index taken with a shift of 4 for 3.
__idx_get_byte_shift4(index) == index \div 16

\* index >> 3
__idx_get_byte(index) == index \div 8

\* The bit of an index taken with the mask 0b11 for 0b111.
__idx_get_bit_mask3(index) == index % 4

\* index & 0b111
__idx_get_bit(index) == index % 8

__idx_1dto2d(index) == <<__idx_get_byte(index), __idx_get_bit(index)>>

\* The bounds check with > for >=: the first index past the end passes.
__out_bound_off_by_one(bytes, index) == __idx_get_byte(index) > bytes

__out_bound(bytes, index) == __idx_get_byte(index) >= bytes

\* The OR written as an exclusive or.
__byte_or_u8_xor(byte, mask) == u8_bitxor(byte, mask)

\* *byte |= mask
__byte_or_u8(byte, mask) == u8_bitor(byte, mask)

\* *byte &= mask
__byte_and_u8(byte, mask) == u8_bitand(byte, mask)

\* ------------------------------------------------------------ Bitmap core

\* The const generic BYTES of a map.
BYTES(map) == Len(map)

\* Bitmap::new filling the array with 0xFF.
new_ones(n) == [k \in 1 .. n |-> 255]

\* Bitmap { bits: [0; BYTES] }
new(n) == [k \in 1 .. n |-> 0]

bit_len(map) == BYTES(map) * 8

byte_len(map) == BYTES(map)

\* __get_bool reading the byte most-significant bit first.
__get_bool_msb_first(map, byte, bit) ==
    IF byte >= Len(map)
    THEN [panic |-> TRUE, value |-> FALSE]
    ELSE [panic |-> FALSE,
          value |-> u8_bitand(map[byte + 1], u8_shl(1, 7 - bit)) # 0]

\* &self.bits[byte] & (1 << bit) != 0; indexing the array past its end panics.
__get_bool(map, byte, bit) ==
    IF byte >= BYTES(map)
    THEN [panic |-> TRUE, value |-> FALSE]
    ELSE [panic |-> FALSE,
          value |-> u8_bitand(map[byte + 1], u8_shl(1, bit)) # 0]

\* self.bits[byte].clone()
__copy_u8(map, byte) == map[byte + 1]

\* get_bool passing (bit, byte) for (byte, bit).
get_bool_swapped(map, index) ==
    __get_bool(map, __idx_get_bit(index), __idx_get_byte(index))

get_bool(map, index) ==
    __get_bool(map, __idx_get_byte(index), __idx_get_bit(index))

get_01(map, index) ==
    LET r == get_bool(map, index)
    IN  [panic |-> r.panic, value |-> IF r.value THEN 1 ELSE 0]

set(map, index) ==
    IF __out_bound(BYTES(map), index)
    THEN [panic |-> TRUE, bits |-> map]
    ELSE LET content == u8_shl(1, __idx_get_bit(index))
             byte == __idx_get_byte(index)
         IN  [panic |-> FALSE,
              bits |-> [map EXCEPT ![byte + 1] = __byte_or_u8(@, content)]]

\* reset without the ! on the mask: the byte is ANDed with the bit itself.
reset_unnegated(map, index) ==
    IF __out_bound(BYTES(map), index)
    THEN [panic |-> TRUE, bits |-> map]
    ELSE LET content == u8_shl(1, __idx_get_bit(index))
             byte == __idx_get_byte(index)
         IN  [panic |-> FALSE,
              bits |-> [map EXCEPT ![byte + 1] = __byte_and_u8(@, content)]]

reset(map, index) ==
    IF __out_bound(BYTES(map), index)
    THEN [panic |-> TRUE, bits |-> map]
    ELSE LET content == u8_not(u8_shl(1, __idx_get_bit(index)))
             byte == __idx_get_byte(index)
         IN  [panic |-> FALSE,
              bits |-> [map EXCEPT ![byte + 1] = __byte_and_u8(@, content)]]

\* flip writing the bit of the wrapped index before its range check fails.
flip_write_first(map, index) ==
    LET byte == IF BYTES(map) = 0 THEN 0 ELSE __idx_get_byte(index) % BYTES(map)
        written == IF BYTES(map) = 0 THEN map
                   ELSE [map EXCEPT ![byte + 1] =
                            u8_bitxor(@, u8_shl(1, __idx_get_bit(index)))]
    IN  [panic |-> __out_bound(BYTES(map), index), bits |-> written]

\* Bitmap::flip with |= for ^=.
flip_or(map, index) ==
    IF __out_bound(BYTES(map), index)
    THEN [panic |-> TRUE, bits |-> map]
    ELSE LET byte == __idx_get_byte(index)
         IN  [panic |-> FALSE,
              bits |-> [map EXCEPT ![byte + 1] =
                            u8_bitor(@, u8_shl(1, __idx_get_bit(index)))]]

flip(map, index) ==
    IF __out_bound(BYTES(map), index)
    THEN [panic |-> TRUE, bits |-> map]
    ELSE LET byte == __idx_get_byte(index)
         IN  [panic |-> FALSE,
              bits |-> [map EXCEPT ![byte + 1] =
                            u8_bitxor(@, u8_shl(1, __idx_get_bit(index)))]]

\* Bitmap::set_all storing 0x7F in every byte.
set_all_low7(map) == [k \in 1 .. BYTES(map) |-> 127]

\* self.bits = [255; BYTES]
set_all(map) == [k \in 1 .. BYTES(map) |-> 255]

\* <Bitmap as Default>::default()
default(n) == new(n)

\* self.bits = [0; BYTES]
reset_all(map) == [k \in 1 .. BYTES(map) |-> 0]

\* flip_all leaving the top bit of every byte as it was.
flip_all_low7(map) == [k \in 1 .. BYTES(map) |-> u8_bitxor(map[k], 127)]

\* for i in arr { *i = !*i }
flip_all(map) == [k \in 1 .. BYTES(map) |-> u8_not(map[k])]

\* --------------------------------------------------------------- wrappers

NoRef == [live |-> FALSE, value |-> FALSE]
NoMut == [live |-> FALSE, idx |-> 0, value |-> FALSE]

\* A &self method borrows the map shared: no &mut borrow may be outstanding.
SharedBorrow(refs, muts) == \A m \in MutSlots : ~muts[m].live

\* The exclusive borrow taken as a shared one, as if the method took &self.
MutBorrow_as_shared(refs, muts) == SharedBorrow(refs, muts)

\* A &mut self method borrows the map exclusively: no borrow may be outstanding.
MutBorrow(refs, muts) ==
    /\ \A k \in RefSlots : ~refs[k].live
    /\ \A m \in MutSlots : ~muts[m].live

\* BitRef::new passing (bit, byte) for (byte, bit) to __get_bool.
BitRef_new_swapped(map, index) ==
    IF __out_bound(BYTES(map), index)
    THEN [panic |-> TRUE, ref |-> NoRef]
    ELSE LET p == __idx_1dto2d(index)
         IN  [panic |-> FALSE,
              ref |-> [live |-> TRUE, value |-> __get_bool(map, p[2], p[1]).value]]

\* BitRef::new(map, index)
BitRef_new(map, index) ==
    IF __out_bound(BYTES(map), index)
    THEN [panic |-> TRUE, ref |-> NoRef]
    ELSE LET p == __idx_1dto2d(index)
         IN  [panic |-> FALSE,
              ref |-> [live |-> TRUE, value |-> __get_bool(map, p[1], p[2]).value]]

\* Bitmap::at(&'map self, index)
at(map, index) == BitRef_new(map, index)

\* BitRefMut::new(map, index)
BitRefMut_new(map, index) ==
    IF __out_bound(BYTES(map), index)
    THEN [panic |-> TRUE, ref |-> NoMut]
    ELSE LET p == __idx_1dto2d(index)
         IN  [panic |-> FALSE,
              ref |-> [live |-> TRUE, idx |-> index,
                       value |-> __get_bool(map, p[1], p[2]).value]]

\* Bitmap::at_mut(&'map mut self, index)
at_mut(map, index) == BitRefMut_new(map, index)

\* BitRefMut::set(&mut self): the map the wrapper borrows, and the wrapper.
BitRefMut_set(map, w) ==
    LET mask == u8_shl(1, __idx_get_bit(w.idx))
        by == __idx_get_byte(w.idx)
    IN  [bits |-> [map EXCEPT ![by + 1] = __byte_or_u8(@, mask)],
         ref |-> [w EXCEPT !.value = TRUE]]

\* BitRefMut::reset clearing the whole byte of its bit.
BitRefMut_reset_byte(map, w) ==
    LET by == __idx_get_byte(w.idx)
    IN  [bits |-> [map EXCEPT ![by + 1] = 0],
         ref |-> [w EXCEPT !.value = FALSE]]

\* BitRefMut::reset(&mut self)
BitRefMut_reset(map, w) ==
    LET mask == u8_not(u8_shl(1, __idx_get_bit(w.idx)))
        by == __idx_get_byte(w.idx)
    IN  [bits |-> [map EXCEPT ![by + 1] = __byte_and_u8(@, mask)],
         ref |-> [w EXCEPT !.value = FALSE]]

\* BitRefMut::flip without the update of the cached value.
BitRefMut_flip_stale(map, w) ==
    LET mask == u8_shl(1, __idx_get_bit(w.idx))
        by == __idx_get_byte(w.idx)
    IN  [bits |-> [map EXCEPT ![by + 1] = u8_bitxor(@, mask)],
         ref |-> w]

\* BitRefMut::flip(&mut self)
BitRefMut_flip(map, w) ==
    LET mask == u8_shl(1, __idx_get_bit(w.idx))
        by == __idx_get_byte(w.idx)
    IN  [bits |-> [map EXCEPT ![by + 1] = u8_bitxor(@, mask)],
         ref |-> [w EXCEPT !.value = ~w.value]]

\* Deref for BitRef and BitRefMut: &self.value
deref(w) == w.value

\* Into<bool> for BitRef and BitRefMut: self.value
into_bool(w) == w.value

\* ------------------------------------------------------------------ scans

None == [some |-> FALSE, index |-> 0]
Some(i) == [some |-> TRUE, index |-> i]

\* -byte in 8-bit two's complement.
u8_neg(byte) == (256 - byte) % 256

\* byte & (-byte): only the lowest set bit of byte.
lowest_one(byte) == u8_bitand(byte, u8_neg(byte))

\* (byte + 1) & ~byte in 8-bit arithmetic: only the place of the lowest clear bit.
lowest_zero(byte) == u8_bitand((byte + 1) % 256, u8_not(byte))

\* The fixed lookup: 1, 2, 4, ..., 128 map to 0 .. 7.
bit_position(single) == CHOOSE k \in 0 .. 7 : 2 ^ k = single

RECURSIVE first_one_from(_, _)
first_one_from(map, byte) ==
    IF byte >= BYTES(map) THEN None
    ELSE IF map[byte + 1] # 0
         THEN Some(byte * 8 + bit_position(lowest_one(map[byte + 1])))
         ELSE first_one_from(map, byte + 1)

find_first_one(map) == first_one_from(map, 0)

RECURSIVE first_zero_from(_, _)
first_zero_from(map, byte) ==
    IF byte >= BYTES(map) THEN None
    ELSE IF map[byte + 1] # 255
         THEN Some(byte * 8 + bit_position(lowest_zero(map[byte + 1])))
         ELSE first_zero_from(map, byte + 1)

\* find_first_zero starting its scan at byte 1.
find_first_zero_skip_byte(map) == first_zero_from(map, 1)

find_first_zero(map) == first_zero_from(map, 0)

\* count_byte without its last fold of the two 4-bit groups.
count_byte_unfolded(byte) ==
    LET x1 == u8_bitand(byte, 85) + u8_bitand(u8_shr(byte, 1), 85)
    IN  u8_bitand(x1, 51) + u8_bitand(u8_shr(x1, 2), 51)

\* The parallel-bits count of one byte: 2-bit groups, 4-bit groups, the fold.
count_byte(byte) ==
    LET x1 == u8_bitand(byte, 85) + u8_bitand(u8_shr(byte, 1), 85)
        x2 == u8_bitand(x1, 51) + u8_bitand(u8_shr(x1, 2), 51)
    IN  u8_bitand(x2, 15) + u8_bitand(u8_shr(x2, 4), 15)

RECURSIVE count_from(_, _)
count_from(map, byte) ==
    IF byte >= BYTES(map) THEN 0
    ELSE count_byte(map[byte + 1]) + count_from(map, byte + 1)

count(map) == count_from(map, 0)

\* test(index): the alias of get_bool.
test(map, index) == get_bool(map, index)

any(map) == find_first_one(map).some

none(map) == ~any(map)

\* all() asking for at least one bit.
all_of_some(map) == BYTES(map) # 0 /\ ~find_first_zero(map).some

all(map) == ~find_first_zero(map).some

\* ------------------------------------------------------------ conversions

\* usize::min
min(a, b) == IF a < b THEN a ELSE b

\* __copy_bytes writing the source into the high-order end of the array.
__copy_bytes_high(n, src) ==
    LET m == Len(src)
    IN  IF n > m
        THEN [k \in 1 .. n |-> IF k > n - m THEN src[k - (n - m)] ELSE 0]
        ELSE [k \in 1 .. n |-> src[k]]

\* __copy_bytes::<N, M>(src): dst = [0u8; N]; when N > M the M source bytes
\* are written at the start of dst, otherwise dst is the first N source bytes.
__copy_bytes(n, src) ==
    LET m == Len(src)
        dst == [k \in 1 .. n |-> 0]
    IN  IF n > m
        THEN [k \in 1 .. n |-> IF k <= m THEN src[k] ELSE dst[k]]
        ELSE [k \in 1 .. n |-> src[k]]

\* <Bitmap<BYTES> as From<[u8; N]>>::from(value)
from(bytes, value) ==
    IF bytes = 0 THEN new(bytes) ELSE __copy_bytes(bytes, value)

\* Into<[u8; BYTES]> giving [0; BYTES] for every capacity.
into_zeroed(map) == [k \in 1 .. BYTES(map) |-> 0]

\* <Bitmap<BYTES> as Into<[u8; BYTES]>>::into(self)
into(map) ==
    IF BYTES(map) = 0 THEN [k \in 1 .. BYTES(map) |-> 0] ELSE map

\* An integer of a fixed-width type: its size in bytes and its value.
IntOf(width, value) == [width |-> width, value |-> value]

\* transmute of an integer into bytes, most significant byte first.
transmute_be(int) ==
    [k \in 1 .. int.width |-> (int.value \div (256 ^ (int.width - k))) % 256]

\* core::mem::transmute::<T, [u8; size_of::<T>()]>(int): the bytes of the
\* two's-complement value in memory order, least significant byte first on
\* the little-endian targets the crate's tests run on.
transmute(int) ==
    [k \in 1 .. int.width |-> (int.value \div (256 ^ (k - 1))) % 256]

\* <Bitmap<BYTES> as From<T>>::from(int) for the integer types
from_int(bytes, int) == from(bytes, transmute(int))

\* transmute::<[u8; size_of::<T>()], T>(arr) for an unsigned T
transmute_back(arr) ==
    LET RECURSIVE value_from(_)
        value_from(k) ==
            IF k > Len(arr) THEN 0 ELSE arr[k] + 256 * value_from(k + 1)
    IN  IntOf(Len(arr), value_from(1))

\* bitand that leaves the bytes past the map as the operand has them.
bitand_keep_tail(map, rhs) ==
    LET size == min(Len(rhs), BYTES(map))
    IN  [i \in 1 .. Len(rhs) |->
            IF i <= size THEN u8_bitand(rhs[i], __copy_u8(map, i - 1)) ELSE rhs[i]]

\* <&Bitmap<BYTES> as BitAnd<[u8; N]>>::bitand(self, rhs)
bitand(map, rhs) ==
    LET size == min(Len(rhs), BYTES(map))
        arr == [i \in 1 .. Len(rhs) |->
                   IF i <= size THEN u8_bitand(rhs[i], __copy_u8(map, i - 1))
                   ELSE rhs[i]]
    IN  IF Len(rhs) > BYTES(map)
        THEN [i \in 1 .. Len(rhs) |-> IF i > size THEN 0 ELSE arr[i]]
        ELSE arr

\* <&Bitmap<BYTES> as BitAnd<T>>::bitand(self, rhs) for the unsigned integers
bitand_int(map, rhs) == transmute_back(bitand(map, transmute(rhs)))

\* bitand_assign that leaves the bytes past the operand as they are.
bitand_assign_keep_tail(map, rhs) ==
    LET size == min(Len(rhs), BYTES(map))
    IN  [i \in 1 .. BYTES(map) |->
            IF i <= size THEN __byte_and_u8(map[i], rhs[i]) ELSE map[i]]

\* <Bitmap<BYTES> as BitAndAssign<[u8; N]>>::bitand_assign(&mut self, rhs)
bitand_assign(map, rhs) ==
    LET size == min(Len(rhs), BYTES(map))
        anded == [i \in 1 .. BYTES(map) |->
                     IF i <= size THEN __byte_and_u8(map[i], rhs[i]) ELSE map[i]]
    IN  IF BYTES(map) > Len(rhs)
        THEN [i \in 1 .. BYTES(map) |-> IF i > size THEN 0 ELSE anded[i]]
        ELSE anded

\* <Bitmap<BYTES> as BitAndAssign<T>>::bitand_assign for the unsigned integers
bitand_assign_int(map, rhs) == bitand_assign(map, transmute(rhs))

\* bitor_assign that sets the bytes past the operand to 0.
bitor_assign_zero_tail(map, rhs) ==
    LET size == min(Len(rhs), BYTES(map))
    IN  [i \in 1 .. BYTES(map) |->
            IF i <= size THEN __byte_or_u8(map[i], rhs[i]) ELSE 0]

\* <Bitmap<BYTES> as BitOrAssign<[u8; N]>>::bitor_assign(&mut self, rhs)
bitor_assign(map, rhs) ==
    LET size == min(Len(rhs), BYTES(map))
    IN  [i \in 1 .. BYTES(map) |->
            IF i <= size THEN __byte_or_u8(map[i], rhs[i]) ELSE map[i]]

\* <Bitmap<BYTES> as BitOrAssign<T>>::bitor_assign for the unsigned integers
bitor_assign_int(map, rhs) == bitor_assign(map, transmute(rhs))

\* __copy_bytes_to ORing the source into the destination.
__copy_bytes_to_or(dst, src) ==
    [k \in 1 .. Len(dst) |->
        IF k <= Len(src) THEN u8_bitor(dst[k], src[k]) ELSE dst[k]]

\* __copy_bytes_to::<N, M>(dst, src): when N > M the M source bytes are
\* written over the start of dst, otherwise dst becomes the first N source
\* bytes.
__copy_bytes_to(dst, src) ==
    LET n == Len(dst)
        m == Len(src)
    IN  IF n > m
        THEN [k \in 1 .. n |-> IF k <= m THEN src[k] ELSE dst[k]]
        ELSE [k \in 1 .. n |-> src[k]]

\* <Bitmap<BYTES> as FillPrefix<[u8; N]>>::fill_prefix(&mut self, value)
fill_prefix(map, value) == __copy_bytes_to(map, value)

\* <Bitmap<BYTES> as FillPrefix<T>>::fill_prefix for the integer types
fill_prefix_int(map, value) == __copy_bytes_to(map, transmute(value))

\* ------------------------------------------------------------- formatting
\* A String is the sequence of its bytes; every character written is ASCII.

\* ' '
SPACE == 32
\* '.'
DOT == 46
\* '0'
ZERO == 48

\* "..."
ELLIPSIS == <<DOT, DOT, DOT>>
\* "["
LBRACKET == <<91>>
\* " bits] "
BITS_SUFFIX == <<32, 98, 105, 116, 115, 93, 32>>

\* <usize as Display>: the decimal digits of n
RECURSIVE to_string(_)
to_string(n) ==
    IF n < 10 THEN <<ZERO + n>>
    ELSE to_string(n \div 10) \o <<ZERO + (n % 10)>>

\* format!("{:08b}", byte) writing the least significant bit first.
format_08b_lsb_first(byte) ==
    [k \in 1 .. 8 |-> ZERO + ((byte \div (2 ^ (k - 1))) % 2)]

\* format!("{:08b}", byte): eight binary digits, most significant first
format_08b(byte) ==
    [k \in 1 .. 8 |-> ZERO + ((byte \div (2 ^ (8 - k))) % 2)]

\* Option<String>::None, Some(contents), and a call that panicked
NoString == [panic |-> FALSE, some |-> FALSE, contents |-> <<>>]
SomeString(contents) == [panic |-> FALSE, some |-> TRUE, contents |-> contents]
Panicked == [panic |-> TRUE, some |-> FALSE, contents |-> <<>>]

\* The first loop of range_to_string: while i is in a byte above start's,
\* a bit 7 emits its whole byte and a space and steps 8 down, any other bit
\* emits itself, followed by a space when it is bit 0, and steps 1 down.
RECURSIVE scan_bytes(_, _, _, _)
scan_bytes(map, start, i, contents) ==
    IF __idx_get_byte(i) > __idx_get_byte(start)
    THEN LET bit == __idx_get_bit(i)
         IN  IF bit = 7
             THEN IF __idx_get_byte(i) >= BYTES(map) \/ i < 8
                  THEN [panic |-> TRUE, i |-> i, contents |-> contents]
                  ELSE scan_bytes(map, start, i - 8,
                           contents \o format_08b(__copy_u8(map, __idx_get_byte(i)))
                                    \o <<SPACE>>)
             ELSE IF get_01(map, i).panic \/ i < 1
                  THEN [panic |-> TRUE, i |-> i, contents |-> contents]
                  ELSE scan_bytes(map, start, i - 1,
                           contents \o to_string(get_01(map, i).value)
                                    \o (IF bit = 0 THEN <<SPACE>> ELSE <<>>))
    ELSE [panic |-> FALSE, i |-> i, contents |-> contents]

\* The second loop of range_to_string: while i > start, emit bit i.
RECURSIVE scan_bits(_, _, _, _)
scan_bits(map, start, i, contents) ==
    IF i > start
    THEN IF get_01(map, i).panic
         THEN [panic |-> TRUE, i |-> i, contents |-> contents]
         ELSE scan_bits(map, start, i - 1,
                  contents \o to_string(get_01(map, i).value))
    ELSE [panic |-> FALSE, i |-> i, contents |-> contents]

\* The body of range_to_string after its range check.
range_contents(map, start, end) ==
    LET first == scan_bytes(map, start, end - 1, <<>>)
        second == scan_bits(map, start, first.i, first.contents)
    IN  IF first.panic \/ second.panic \/ get_01(map, second.i).panic
        THEN Panicked
        ELSE SomeString(second.contents \o to_string(get_01(map, second.i).value))

\* range_to_string checking end, not end - 1, against the capacity.
range_to_string_end_checked(map, start, end) ==
    IF start >= end \/ __out_bound(BYTES(map), start)
                    \/ __out_bound(BYTES(map), end)
    THEN NoString
    ELSE range_contents(map, start, end)

\* Bitmap::range_to_string(&self, start, end); end - 1 is only evaluated
\* when start < end, so it cannot underflow.
range_to_string(map, start, end) ==
    IF start >= end \/ __out_bound(BYTES(map), start)
    THEN NoString
    ELSE IF end < 1
         THEN Panicked
         ELSE IF __out_bound(BYTES(map), end - 1)
              THEN NoString
              ELSE range_contents(map, start, end)

\* The bytes fmt shows: byte size - 1 down to byte 0, a space between them.
RECURSIVE shown_bytes(_, _, _)
shown_bytes(map, size, i) ==
    IF i < size
    THEN (IF i > 0 THEN <<SPACE>> ELSE <<>>)
         \o format_08b(__copy_u8(map, size - i - 1))
         \o shown_bytes(map, size, i + 1)
    ELSE <<>>

\* <Bitmap<BYTES> as Display>::fmt prefixing "..." to every map.
fmt_always_ellipsis(map) ==
    LET size == min(2, BYTES(map))
    IN  LBRACKET \o to_string(BYTES(map) * 8) \o BITS_SUFFIX
        \o ELLIPSIS
        \o shown_bytes(map, size, 0)

\* <Bitmap<BYTES> as Display>::fmt(&self, f)
fmt(map) ==
    LET size == min(2, BYTES(map))
    IN  LBRACKET \o to_string(BYTES(map) * 8) \o BITS_SUFFIX
        \o (IF BYTES(map) > size THEN ELLIPSIS ELSE <<>>)
        \o shown_bytes(map, size, 0)

\* ----------------------------------------------------------------- macros

\* newmap!(;n) rounding the bit length down to whole bytes.
newmap_round_down(n) == new(n \div 8)

\* newmap!(;n): Bitmap::<{(n + 7) >> 3}>::new()
newmap(n) == new((n + 7) \div 8)

\* newmap!(): Bitmap::<0>::new()
newmap_empty == new(0)

\* map |= a; for each flag in turn
RECURSIVE or_each(_, _)
or_each(map, flags) ==
    IF flags = <<>> THEN map
    ELSE or_each(bitor_assign_int(map, Head(flags)), Tail(flags))

\* newmap!(f1 | f2 | ...; n)
newmap_flags(flags, n) == or_each(newmap(n), flags)

\* map.set(a) chained for each index; the first failing set panics
RECURSIVE set_each(_, _)
set_each(map, idxs) ==
    IF idxs = <<>> THEN [panic |-> FALSE, bits |-> map]
    ELSE LET r == set(map, Head(idxs))
         IN  IF r.panic THEN r ELSE set_each(r.bits, Tail(idxs))

\* he_lang!(i1 | i2 | ...; n)
he_lang(idxs, n) == set_each(newmap(n), idxs)

\* ------------------------------------------------------------------ state

\* The caller's last call returned no bytes and no integer.
NoRet == [kind |-> "none", arr |-> <<>>, int |-> 0]

TypeOK ==
    /\ bits \in Seq(0 .. 255)
    /\ outcome \in {"ok", "panic"}
    /\ bitrefs \in [RefSlots -> [live : BOOLEAN, value : BOOLEAN]]
    /\ bitmuts \in [MutSlots -> [live : BOOLEAN, idx : Indices, value : BOOLEAN]]
    /\ ret \in [kind : {"none", "array", "int", "Some", "None", "String",
                       "Allocated", "Oom", "Realloc", "Unallocated",
                       "Deallocated", "Oor", "panic"},
               arr : Seq(U8), int : Int]

Init ==
    /\ \E n \in 0 .. MaxBytes : bits = new(n)
    /\ outcome = "ok"
    /\ bitrefs = [k \in RefSlots |-> NoRef]
    /\ bitmuts = [m \in MutSlots |-> NoMut]
    /\ ret = NoRet

\* Bitmap::set(&mut self, index); a panic ends the run.
Set(index) ==
    /\ outcome = "ok"
    /\ MutBorrow(bitrefs, bitmuts)
    /\ LET r == set(bits, index)
       IN  /\ bits' = r.bits
           /\ outcome' = IF r.panic THEN "panic" ELSE "ok"
    /\ ret' = NoRet
    /\ UNCHANGED <<bitrefs, bitmuts>>

\* Bitmap::reset(&mut self, index)
Reset(index) ==
    /\ outcome = "ok"
    /\ MutBorrow(bitrefs, bitmuts)
    /\ LET r == reset(bits, index)
       IN  /\ bits' = r.bits
           /\ outcome' = IF r.panic THEN "panic" ELSE "ok"
    /\ ret' = NoRet
    /\ UNCHANGED <<bitrefs, bitmuts>>

\* Bitmap::flip(&mut self, index)
Flip(index) ==
    /\ outcome = "ok"
    /\ MutBorrow(bitrefs, bitmuts)
    /\ LET r == flip(bits, index)
       IN  /\ bits' = r.bits
           /\ outcome' = IF r.panic THEN "panic" ELSE "ok"
    /\ ret' = NoRet
    /\ UNCHANGED <<bitrefs, bitmuts>>

\* Bitmap::set_all(&mut self)
SetAll ==
    /\ outcome = "ok"
    /\ MutBorrow(bitrefs, bitmuts)
    /\ bits' = set_all(bits)
    /\ ret' = NoRet
    /\ UNCHANGED <<outcome, bitrefs, bitmuts>>

\* Bitmap::reset_all(&mut self)
ResetAll ==
    /\ outcome = "ok"
    /\ MutBorrow(bitrefs, bitmuts)
    /\ bits' = reset_all(bits)
    /\ ret' = NoRet
    /\ UNCHANGED <<outcome, bitrefs, bitmuts>>

\* Bitmap::flip_all(&mut self)
FlipAll ==
    /\ outcome = "ok"
    /\ MutBorrow(bitrefs, bitmuts)
    /\ bits' = flip_all(bits)
    /\ ret' = NoRet
    /\ UNCHANGED <<outcome, bitrefs, bitmuts>>

Next ==
    \/ \E index \in Indices : Set(index)
    \/ \E index \in Indices : Reset(index)
    \/ \E index \in Indices : Flip(index)
    \/ SetAll
    \/ ResetAll
    \/ FlipAll

Spec == Init /\ [][Next]_vars

\* ------------------------------------------------ the wrappers' callers

\* The lowest slot that holds no BitRef.
FreeRef == CHOOSE k \in RefSlots :
               /\ ~bitrefs[k].live
               /\ \A j \in RefSlots : j < k => bitrefs[j].live

\* let bit = map.at(index)
At(index) ==
    /\ outcome = "ok"
    /\ SharedBorrow(bitrefs, bitmuts)
    /\ \E k \in RefSlots : ~bitrefs[k].live
    /\ LET r == at(bits, index)
       IN  /\ bitrefs' = IF r.panic THEN bitrefs
                         ELSE [bitrefs EXCEPT ![FreeRef] = r.ref]
           /\ outcome' = IF r.panic THEN "panic" ELSE "ok"
    /\ ret' = NoRet
    /\ UNCHANGED <<bits, bitmuts>>

\* let bit2 = bit1 (BitRef is Copy)
CopyRef(k) ==
    /\ outcome = "ok"
    /\ bitrefs[k].live
    /\ \E j \in RefSlots : ~bitrefs[j].live
    /\ bitrefs' = [bitrefs EXCEPT ![FreeRef] = bitrefs[k]]
    /\ ret' = NoRet
    /\ UNCHANGED <<bits, outcome, bitmuts>>

\* A BitRef goes out of scope.
DropRef(k) ==
    /\ outcome = "ok"
    /\ bitrefs[k].live
    /\ bitrefs' = [bitrefs EXCEPT ![k] = NoRef]
    /\ ret' = NoRet
    /\ UNCHANGED <<bits, outcome, bitmuts>>

\* let mut bitmut = map.at_mut(index), into the caller's variable m
AtMut(m, index) ==
    /\ outcome = "ok"
    /\ MutBorrow(bitrefs, bitmuts)
    /\ ~bitmuts[m].live
    /\ LET r == at_mut(bits, index)
       IN  /\ bitmuts' = IF r.panic THEN bitmuts
                         ELSE [bitmuts EXCEPT ![m] = r.ref]
           /\ outcome' = IF r.panic THEN "panic" ELSE "ok"
    /\ ret' = NoRet
    /\ UNCHANGED <<bits, bitrefs>>

\* bitmut.set()
MutSet(m) ==
    /\ outcome = "ok"
    /\ bitmuts[m].live
    /\ LET r == BitRefMut_set(bits, bitmuts[m])
       IN  /\ bits' = r.bits
           /\ bitmuts' = [bitmuts EXCEPT ![m] = r.ref]
    /\ ret' = NoRet
    /\ UNCHANGED <<outcome, bitrefs>>

\* bitmut.reset()
MutReset(m) ==
    /\ outcome = "ok"
    /\ bitmuts[m].live
    /\ LET r == BitRefMut_reset(bits, bitmuts[m])
       IN  /\ bits' = r.bits
           /\ bitmuts' = [bitmuts EXCEPT ![m] = r.ref]
    /\ ret' = NoRet
    /\ UNCHANGED <<outcome, bitrefs>>

\* bitmut.flip()
MutFlip(m) ==
    /\ outcome = "ok"
    /\ bitmuts[m].live
    /\ LET r == BitRefMut_flip(bits, bitmuts[m])
       IN  /\ bits' = r.bits
           /\ bitmuts' = [bitmuts EXCEPT ![m] = r.ref]
    /\ ret' = NoRet
    /\ UNCHANGED <<outcome, bitrefs>>

\* A BitRefMut goes out of scope, or is consumed by Into<bool>.
DropMut(m) ==
    /\ outcome = "ok"
    /\ bitmuts[m].live
    /\ bitmuts' = [bitmuts EXCEPT ![m] = NoMut]
    /\ ret' = NoRet
    /\ UNCHANGED <<bits, outcome, bitrefs>>

InitRef ==
    /\ \E n \in 0 .. RefBytes : bits = new(n)
    /\ outcome = "ok"
    /\ bitrefs = [k \in RefSlots |-> NoRef]
    /\ bitmuts = [m \in MutSlots |-> NoMut]
    /\ ret = NoRet

NextRef ==
    \/ \E index \in Indices : Set(index)
    \/ \E index \in Indices : Reset(index)
    \/ \E index \in Indices : Flip(index)
    \/ SetAll
    \/ ResetAll
    \/ FlipAll
    \/ \E index \in Indices : At(index)
    \/ \E k \in RefSlots : CopyRef(k)
    \/ \E k \in RefSlots : DropRef(k)
    \/ \E m \in MutSlots, index \in Indices : AtMut(m, index)
    \/ \E m \in MutSlots : MutSet(m)
    \/ \E m \in MutSlots : MutReset(m)
    \/ \E m \in MutSlots : MutFlip(m)
    \/ \E m \in MutSlots : DropMut(m)

\* The core operations together with the wrappers, on maps of at most RefBytes.
SpecRef == InitRef /\ [][NextRef]_vars

\* ----------------------------------------- the callers of the conversions

\* The byte values the callers put in their arrays.
SrcBytes == {10, 162, 255}

\* The arrays [u8; M] the callers pass, M from 0 to MaxSrc.
SrcArrays == UNION {[1 .. m -> SrcBytes] : m \in 0 .. MaxSrc}

\* The unsigned integers the callers pass: u8, u16 and u32 values.
SrcUnsigned ==
    {IntOf(1, 162), IntOf(1, 255),
     IntOf(2, 3850), IntOf(2, 41727),
     IntOf(4, 252355327)}

\* The signed integers the callers pass: i8, i16 and i32 values.
SrcSigned ==
    {IntOf(1, -1), IntOf(1, -94),
     IntOf(2, -241), IntOf(2, -24054),
     IntOf(4, 3850), IntOf(4, -1560342774)}

SrcInts == SrcUnsigned \cup SrcSigned

\* map = Bitmap::<BYTES>::from(value)
From(value) ==
    /\ outcome = "ok"
    /\ MutBorrow(bitrefs, bitmuts)
    /\ bits' = from(BYTES(bits), value)
    /\ ret' = NoRet
    /\ UNCHANGED <<outcome, bitrefs, bitmuts>>

\* map = Bitmap::<BYTES>::from(int)
FromInt(int) ==
    /\ outcome = "ok"
    /\ MutBorrow(bitrefs, bitmuts)
    /\ bits' = from_int(BYTES(bits), int)
    /\ ret' = NoRet
    /\ UNCHANGED <<outcome, bitrefs, bitmuts>>

\* let arr: [u8; BYTES] = map.into(); the map is rebuilt from the array
Into ==
    /\ outcome = "ok"
    /\ MutBorrow(bitrefs, bitmuts)
    /\ ret' = [kind |-> "array", arr |-> into(bits), int |-> 0]
    /\ bits' = from(BYTES(bits), into(bits))
    /\ UNCHANGED <<outcome, bitrefs, bitmuts>>

\* let out = &map & rhs
BitAnd(rhs) ==
    /\ outcome = "ok"
    /\ SharedBorrow(bitrefs, bitmuts)
    /\ UNCHANGED <<bits, outcome, bitrefs, bitmuts>>
    /\ ret' = [kind |-> "array", arr |-> bitand(bits, rhs), int |-> 0]

\* let out = &map & int
BitAndInt(rhs) ==
    /\ outcome = "ok"
    /\ SharedBorrow(bitrefs, bitmuts)
    /\ UNCHANGED <<bits, outcome, bitrefs, bitmuts>>
    /\ LET r == bitand_int(bits, rhs)
       IN  ret' = [kind |-> "int", arr |-> transmute(r), int |-> r.value]

\* map &= rhs
BitAndAssign(rhs) ==
    /\ outcome = "ok"
    /\ MutBorrow(bitrefs, bitmuts)
    /\ bits' = bitand_assign(bits, rhs)
    /\ ret' = NoRet
    /\ UNCHANGED <<outcome, bitrefs, bitmuts>>

\* map &= int
BitAndAssignInt(rhs) ==
    /\ outcome = "ok"
    /\ MutBorrow(bitrefs, bitmuts)
    /\ bits' = bitand_assign_int(bits, rhs)
    /\ ret' = NoRet
    /\ UNCHANGED <<outcome, bitrefs, bitmuts>>

\* map |= rhs
BitOrAssign(rhs) ==
    /\ outcome = "ok"
    /\ MutBorrow(bitrefs, bitmuts)
    /\ bits' = bitor_assign(bits, rhs)
    /\ ret' = NoRet
    /\ UNCHANGED <<outcome, bitrefs, bitmuts>>

\* map |= int
BitOrAssignInt(rhs) ==
    /\ outcome = "ok"
    /\ MutBorrow(bitrefs, bitmuts)
    /\ bits' = bitor_assign_int(bits, rhs)
    /\ ret' = NoRet
    /\ UNCHANGED <<outcome, bitrefs, bitmuts>>

\* map.fill_prefix(value)
FillPrefix(value) ==
    /\ outcome = "ok"
    /\ MutBorrow(bitrefs, bitmuts)
    /\ bits' = fill_prefix(bits, value)
    /\ ret' = NoRet
    /\ UNCHANGED <<outcome, bitrefs, bitmuts>>

\* map.fill_prefix(int)
FillPrefixInt(value) ==
    /\ outcome = "ok"
    /\ MutBorrow(bitrefs, bitmuts)
    /\ bits' = fill_prefix_int(bits, value)
    /\ ret' = NoRet
    /\ UNCHANGED <<outcome, bitrefs, bitmuts>>

InitOps ==
    /\ \E n \in 0 .. OpsBytes : bits = new(n)
    /\ outcome = "ok"
    /\ bitrefs = [k \in RefSlots |-> NoRef]
    /\ bitmuts = [m \in MutSlots |-> NoMut]
    /\ ret = NoRet

NextOps ==
    \/ \E value \in SrcArrays : From(value)
    \/ \E int \in SrcInts : FromInt(int)
    \/ Into
    \/ \E rhs \in SrcArrays : BitAnd(rhs)
    \/ \E rhs \in SrcUnsigned : BitAndInt(rhs)
    \/ \E rhs \in SrcArrays : BitAndAssign(rhs)
    \/ \E rhs \in SrcUnsigned : BitAndAssignInt(rhs)
    \/ \E rhs \in SrcArrays : BitOrAssign(rhs)
    \/ \E rhs \in SrcUnsigned : BitOrAssignInt(rhs)
    \/ \E value \in SrcArrays : FillPrefix(value)
    \/ \E value \in SrcInts : FillPrefixInt(value)

\* The conversions, the logic operators and fill_prefix on maps of at most
\* OpsBytes bytes, with operands of at most MaxSrc bytes.
SpecOps == InitOps /\ [][NextOps]_vars

\* -------------------------------------------------- callers of formatting

\* The range bounds range_to_string is examined on.
FmtIndices == 0 .. (8 * FmtBytes + OobSlack)

\* 00010000 00100010, the map of the range_to_string test
TestRangeMap == <<34, 16>>
\* A three-byte map with bits 0 and 8 set.
TestDisplayMap == <<1, 1, 0>>
\* The arrays the formatted maps are built from.
FmtArrays ==
    {<<>>, <<162>>, <<255, 255>>, <<10, 162, 255>>, TestRangeMap, TestDisplayMap}

\* The range bounds the callers pass: the ends of the bytes and their
\* neighbours, and the bounds of the test.
RangeBounds == {0, 1, 5, 6, 7, 8, 9, 15, 16, 17, 23, 24, 25} \cap FmtIndices

\* let s = map.range_to_string(start, end)
RangeToString(start, end) ==
    /\ outcome = "ok"
    /\ SharedBorrow(bitrefs, bitmuts)
    /\ LET r == range_to_string(bits, start, end)
       IN  /\ outcome' = IF r.panic THEN "panic" ELSE "ok"
           /\ ret' = [kind |-> IF r.panic THEN "none"
                               ELSE IF r.some THEN "Some" ELSE "None",
                      arr |-> r.contents, int |-> 0]
    /\ UNCHANGED <<bits, bitrefs, bitmuts>>

\* let s = format!("{}", map)
Display ==
    /\ outcome = "ok"
    /\ SharedBorrow(bitrefs, bitmuts)
    /\ ret' = [kind |-> "String", arr |-> fmt(bits), int |-> 0]
    /\ UNCHANGED <<bits, outcome, bitrefs, bitmuts>>

InitFmt ==
    /\ \E n \in 0 .. FmtBytes : bits = new(n)
    /\ outcome = "ok"
    /\ bitrefs = [k \in RefSlots |-> NoRef]
    /\ bitmuts = [m \in MutSlots |-> NoMut]
    /\ ret = NoRet

NextFmt ==
    \/ \E value \in FmtArrays : From(value)
    \/ \E start, end \in RangeBounds : RangeToString(start, end)
    \/ Display

\* Formatting maps of at most FmtBytes bytes.
SpecFmt == InitFmt /\ [][NextFmt]_vars

\* ------------------------------------------------------ callers of macros

\* The bit lengths passed to the macros.
MacroLens == 0 .. MacroBits \cup {35}

\* One or two flags, as the macros' flag lists.
FlagLists == UNION {[1 .. m -> SrcUnsigned] : m \in 1 .. 2}

\* The indices he_lang! is given, in and out of the maps' ranges.
MacroIndices == {0, 1, 2, 7, 8, 15, 16, 39, 40}
IndexLists == UNION {[1 .. m -> MacroIndices] : m \in 1 .. 2}

\* let map = newmap!();
NewMapEmpty ==
    /\ outcome = "ok"
    /\ bits' = newmap_empty
    /\ ret' = NoRet
    /\ UNCHANGED <<outcome, bitrefs, bitmuts>>

\* let map = newmap!(;n);
NewMap(n) ==
    /\ outcome = "ok"
    /\ bits' = newmap(n)
    /\ ret' = NoRet
    /\ UNCHANGED <<outcome, bitrefs, bitmuts>>

\* let map = newmap!(f1 | f2; n);
NewMapFlags(flags, n) ==
    /\ outcome = "ok"
    /\ bits' = newmap_flags(flags, n)
    /\ ret' = NoRet
    /\ UNCHANGED <<outcome, bitrefs, bitmuts>>

\* let map = he_lang!(i1 | i2; n);
HeLang(idxs, n) ==
    /\ outcome = "ok"
    /\ LET r == he_lang(idxs, n)
       IN  /\ bits' = r.bits
           /\ outcome' = IF r.panic THEN "panic" ELSE "ok"
    /\ ret' = NoRet
    /\ UNCHANGED <<bitrefs, bitmuts>>

InitMacro ==
    /\ bits = newmap_empty
    /\ outcome = "ok"
    /\ bitrefs = [k \in RefSlots |-> NoRef]
    /\ bitmuts = [m \in MutSlots |-> NoMut]
    /\ ret = NoRet

NextMacro ==
    \/ NewMapEmpty
    \/ \E n \in MacroLens : NewMap(n)
    \/ \E flags \in FlagLists, n \in MacroLens : NewMapFlags(flags, n)
    \/ \E idxs \in IndexLists, n \in MacroLens : HeLang(idxs, n)

\* The construction macros, for bit lengths up to MacroBits and 35.
SpecMacro == InitMacro /\ [][NextMacro]_vars

\* --------------------------------------------- callers of the count test

\* newmap!(;64) of the advanced_op test
AdvancedOpBits == 64
\* some = [0b11, 0b110, 0b101, 0b1010, 0b1111, 0b1, 0b10000, 0b01]
some_array == <<3, 6, 5, 10, 15, 1, 16, 1>>
\* The capacity of a Bitmap<64>, in bytes.
Bitmap64Bytes == 64

CountArrays == {some_array, <<255>>, <<10, 162>>}
CountIndices == {0, 9, 63}

\* let n = map.count()
Count ==
    /\ outcome = "ok"
    /\ SharedBorrow(bitrefs, bitmuts)
    /\ ret' = [kind |-> "int", arr |-> <<>>, int |-> count(bits)]
    /\ UNCHANGED <<bits, outcome, bitrefs, bitmuts>>

InitCount ==
    /\ bits \in {newmap(AdvancedOpBits), new(Bitmap64Bytes)}
    /\ outcome = "ok"
    /\ bitrefs = [k \in RefSlots |-> NoRef]
    /\ bitmuts = [m \in MutSlots |-> NoMut]
    /\ ret = NoRet

NextCount ==
    \/ \E value \in CountArrays : FillPrefix(value)
    \/ \E index \in CountIndices : Set(index)
    \/ FlipAll
    \/ SetAll
    \/ ResetAll
    \/ Count

\* Counting the bits of the 64-bit map of the test and of a Bitmap<64>.
SpecCount == InitCount /\ [][NextCount]_vars

\* ------------------------------------- the cacheline manager of the example

\* CachelineManager::LINECNT
LINECNT == 63

\* The result of a call of the manager: kind, the line, and the map after it.
Result(kind, idx, map) == [kind |-> kind, idx |-> idx, bits |-> map]

\* CachelineManager::new: the Bitmap<8> with bit 0 set for the manager's own
\* line. The example writes newmap!(0b1; 64), whose untyped flag is an i32,
\* for which Bitmap has no |= (ops.rs has it for u8, u16, u32, u64, u128,
\* usize and [u8; N]), so the compiler rejects the line as written; the map
\* is the one the macro gives with the flag typed as one of those, 0b1u8.
CachelineManager_new == newmap_flags(<<IntOf(1, 1)>>, 64)

\* CachelineManager::get_idx(line), the line given as its offset from the
\* page in whole cachelines, negative when the pointer is below the page.
get_idx(line) ==
    IF line < 0 THEN [ok |-> FALSE, idx |-> line]
    ELSE IF line > LINECNT THEN [ok |-> FALSE, idx |-> line]
         ELSE [ok |-> TRUE, idx |-> line]

\* CachelineManager::allocate(&self): the results the call can give. For
\* idx = 0 the bit is set and idx - 1 then underflows: a build with overflow
\* checks panics there, a build without them wraps and hands out line 0.
allocate(map) ==
    LET found == find_first_zero(map)
        idx == found.index
    IN  IF ~found.some THEN {Result("Oom", 0, map)}
        ELSE IF test(map, idx).panic THEN {Result("panic", idx, map)}
        ELSE IF test(map, idx).value THEN {Result("Realloc", idx, map)}
        ELSE IF idx < 1
             THEN {Result("panic", idx, set(map, idx).bits),
                   Result("Allocated", idx, set(map, idx).bits)}
             ELSE {Result("Allocated", idx, set(map, idx).bits)}

\* CachelineManager::deallocate(&self, line)
deallocate(map, line) ==
    LET got == get_idx(line)
    IN  IF ~got.ok THEN Result("Oor", got.idx, map)
        ELSE IF test(map, got.idx).panic THEN Result("panic", got.idx, map)
        ELSE IF ~test(map, got.idx).value THEN Result("Unallocated", got.idx, map)
        ELSE Result("Deallocated", got.idx, reset(map, got.idx).bits)

\* The lines the caller gives back: lines it was handed, the line past the
\* page and the line before it.
FreedLines == {-1, 1, 2, 7, 63, 64}

\* let line = manager.allocate()
Allocate ==
    /\ outcome = "ok"
    /\ \E r \in allocate(bits) :
           /\ bits' = r.bits
           /\ outcome' = IF r.kind = "panic" THEN "panic" ELSE "ok"
           /\ ret' = [kind |-> r.kind, arr |-> <<>>, int |-> r.idx]
    /\ UNCHANGED <<bitrefs, bitmuts>>

\* let res = manager.deallocate(line)
Deallocate(line) ==
    /\ outcome = "ok"
    /\ LET r == deallocate(bits, line)
       IN  /\ bits' = r.bits
           /\ outcome' = IF r.kind = "panic" THEN "panic" ELSE "ok"
           /\ ret' = [kind |-> r.kind, arr |-> <<>>, int |-> r.idx]
    /\ UNCHANGED <<bitrefs, bitmuts>>

InitManager ==
    /\ bits = CachelineManager_new
    /\ outcome = "ok"
    /\ bitrefs = [k \in RefSlots |-> NoRef]
    /\ bitmuts = [m \in MutSlots |-> NoMut]
    /\ ret = NoRet

NextManager ==
    \/ Allocate
    \/ \E line \in FreedLines : Deallocate(line)

\* The cacheline manager over its Bitmap<8>.
SpecManager == InitManager /\ [][NextManager]_vars

\* ------------------------------------------------------------ properties

\* The indices a map of this capacity holds.
InRange(map) == 0 .. (bit_len(map) - 1)

\* C1: every single-bit accessor, mutator and wrapper constructor panics
\* exactly when index >= 8 * BYTES; an out-of-range call writes no bit and
\* yields no wrapper, so the index is never clamped or wrapped.
C1_BoundsEnforced ==
    \A i \in Indices \cup FarIndices :
        LET oob == (i >= 8 * BYTES(bits))
        IN  /\ get_bool(bits, i).panic = oob
            /\ get_01(bits, i).panic = oob
            /\ test(bits, i).panic = oob
            /\ set(bits, i).panic = oob
            /\ reset(bits, i).panic = oob
            /\ flip(bits, i).panic = oob
            /\ at(bits, i).panic = oob
            /\ at_mut(bits, i).panic = oob
            /\ oob => /\ set(bits, i).bits = bits
                      /\ reset(bits, i).bits = bits
                      /\ flip(bits, i).bits = bits
                      /\ ~at(bits, i).ref.live
                      /\ ~at_mut(bits, i).ref.live
            /\ ~oob => /\ at(bits, i).ref.live
                       /\ at_mut(bits, i).ref.live
                       /\ at_mut(bits, i).ref.idx = i

\* An out-of-range call has panicked on a one-byte map that holds bits 0 and 7.
C1_Witness == outcome = "panic" /\ bits = <<129>>

\* C2: for every in-range index, get_bool is true after set, false after
\* reset and negated after flip, and get_01 is 1 exactly when get_bool is true.
C2_SingleBitEffect ==
    \A i \in InRange(bits) :
        /\ get_bool(set(bits, i).bits, i).value = TRUE
        /\ get_bool(reset(bits, i).bits, i).value = FALSE
        /\ get_bool(flip(bits, i).bits, i).value = ~get_bool(bits, i).value
        /\ get_01(bits, i).value = (IF get_bool(bits, i).value THEN 1 ELSE 0)
        /\ get_01(set(bits, i).bits, i).value = 1
        /\ get_01(reset(bits, i).bits, i).value = 0

\* Bitmap<2> after set(7) and set(8): get_bool(7) and get_01(8) == 1.
C2_Witness ==
    /\ outcome = "ok"
    /\ bits = <<128, 1>>
    /\ get_bool(bits, 7).value
    /\ get_01(bits, 8).value = 1

LiveMuts == {m \in MutSlots : bitmuts[m].live}
LiveRefs == {k \in RefSlots : bitrefs[k].live}

\* A step of one of the Bitmap's own mutators.
MutatorStep ==
    \/ \E index \in Indices : Set(index) \/ Reset(index) \/ Flip(index)
    \/ SetAll
    \/ ResetAll
    \/ FlipAll

\* C3: a map has at most one live BitRefMut, and none while a BitRef is
\* live; while a BitRefMut is live no BitRef or BitRefMut is created, no
\* Bitmap mutator runs, and the map changes only through that wrapper.
C3_Exclusive ==
    /\ [](/\ Cardinality(LiveMuts) <= 1
          /\ LiveMuts # {} => LiveRefs = {})
    /\ [][LiveMuts # {} =>
            /\ \A k \in RefSlots : bitrefs'[k].live => bitrefs[k].live
            /\ \A m \in MutSlots : bitmuts'[m].live => bitmuts[m].live
            /\ ~MutatorStep
            /\ bits' # bits =>
                 \E m \in LiveMuts : MutSet(m) \/ MutReset(m) \/ MutFlip(m)]_vars
    /\ [][LiveRefs # {} => bits' = bits /\ ~MutatorStep]_vars

\* A BitRefMut is live on bit 5, which it has set, and no BitRef is.
C3_Witness ==
    /\ outcome = "ok"
    /\ bits = <<32>>
    /\ \E m \in MutSlots : bitmuts[m] = [live |-> TRUE, idx |-> 5, value |-> TRUE]
    /\ LiveRefs = {}

\* C4: the cached value of a live BitRefMut, read by deref or by the
\* conversion to bool, is the map's bit at its index, from at_mut on and
\* after every set, reset and flip of the wrapper; when the wrapper is
\* dropped, get_bool at its index returns the last cached value.
C4_CachedValue ==
    /\ [](\A m \in LiveMuts :
            /\ bitmuts[m].idx \in InRange(bits)
            /\ deref(bitmuts[m]) = get_bool(bits, bitmuts[m].idx).value
            /\ into_bool(bitmuts[m]) = get_bool(bits, bitmuts[m].idx).value)
    /\ [][\A m \in MutSlots, i \in Indices :
            (AtMut(m, i) /\ outcome' = "ok") =>
                /\ bitmuts'[m].idx = i
                /\ deref(bitmuts'[m]) = get_bool(bits, i).value]_vars
    /\ [][\A m \in MutSlots :
            /\ MutSet(m) => deref(bitmuts'[m]) /\ get_bool(bits', bitmuts[m].idx).value
            /\ MutReset(m) => ~deref(bitmuts'[m]) /\ ~get_bool(bits', bitmuts[m].idx).value
            /\ MutFlip(m) => deref(bitmuts'[m]) = ~deref(bitmuts[m])
            /\ DropMut(m) =>
                 get_bool(bits', bitmuts[m].idx).value = into_bool(bitmuts[m])]_vars

\* A wrapper made on the clear bit 4 of a map holding bit 7 has made it 1.
C4_Witness ==
    /\ outcome = "ok"
    /\ bits = <<144>>
    /\ \E m \in MutSlots : bitmuts[m] = [live |-> TRUE, idx |-> 4, value |-> TRUE]

\* C5: at(i) in range gives a BitRef whose value is get_bool(i) and leaves
\* the map unchanged; the value of a live BitRef never changes, and a copy
\* holds the value of the BitRef it was copied from.
C5_Snapshot ==
    /\ [](\A i \in InRange(bits) :
            at(bits, i) = [panic |-> FALSE,
                           ref |-> [live |-> TRUE,
                                    value |-> get_bool(bits, i).value]])
    /\ [][\A i \in Indices : At(i) => bits' = bits]_vars
    /\ [][\A k \in RefSlots :
            (bitrefs[k].live /\ bitrefs'[k].live) =>
                deref(bitrefs'[k]) = deref(bitrefs[k])]_vars
    /\ [][\A k \in RefSlots : CopyRef(k) =>
            \A j \in RefSlots :
                (~bitrefs[j].live /\ bitrefs'[j].live) =>
                    into_bool(bitrefs'[j]) = into_bool(bitrefs[k])]_vars

\* Two BitRefs are live on a map that holds bit 3 alone: one read a set
\* bit, the other a clear one.
C5_Witness ==
    /\ outcome = "ok"
    /\ bits = <<8>>
    /\ bitrefs[1] = [live |-> TRUE, value |-> TRUE]
    /\ bitrefs[2] = [live |-> TRUE, value |-> FALSE]

\* C6: find_first_one returns the lowest index whose bit is 1, and None
\* exactly when every bit is 0.
C6_FirstOne ==
    LET r == find_first_one(bits)
    IN  /\ r.some => /\ r.index \in InRange(bits)
                     /\ get_bool(bits, r.index).value
                     /\ \A j \in 0 .. (r.index - 1) : ~get_bool(bits, j).value
        /\ ~r.some <=> \A j \in InRange(bits) : ~get_bool(bits, j).value
        /\ ~r.some => r = None

\* The first byte is zero and the lowest set bit is bit 10, with more above it.
C6_Witness ==
    /\ outcome = "ok"
    /\ bits = <<0, 132>>
    /\ find_first_one(bits) = Some(10)

\* C7: find_first_zero returns the lowest index whose bit is 0, and None
\* exactly when every bit is 1, also when bytes of 0xFF come first.
C7_FirstZero ==
    LET r == find_first_zero(bits)
    IN  /\ r.some => /\ r.index \in InRange(bits)
                     /\ ~get_bool(bits, r.index).value
                     /\ \A j \in 0 .. (r.index - 1) : get_bool(bits, j).value
        /\ ~r.some <=> \A j \in InRange(bits) : get_bool(bits, j).value
        /\ ~r.some => r = None

\* A byte of 0xFF comes before the first zero bit, bit 10.
C7_Witness ==
    /\ outcome = "ok"
    /\ bits = <<255, 123>>
    /\ find_first_zero(bits) = Some(10)

\* C8: count is the number of indices whose bit get_bool reports set; every
\* byte value is the content of some reachable one-byte map.
C8_CountIsPopulation ==
    count(bits) = Cardinality({i \in InRange(bits) : get_bool(bits, i).value})

\* A map whose bytes have bits in every 2-bit and 4-bit group.
C8_Witness ==
    /\ outcome = "ok"
    /\ bits = <<219, 126>>
    /\ count(bits) = 12

\* C9: find_first_one is None iff none(); find_first_zero is None iff all();
\* any() is the negation of none(); any() holds exactly when some bit is 1
\* and all() exactly when no bit is 0.
C9_Predicates ==
    /\ (find_first_one(bits) = None) <=> none(bits)
    /\ (find_first_zero(bits) = None) <=> all(bits)
    /\ any(bits) <=> ~none(bits)
    /\ any(bits) <=> \E i \in InRange(bits) : get_bool(bits, i).value
    /\ all(bits) <=> \A i \in InRange(bits) : get_bool(bits, i).value

\* A full two-byte map: all() and any() hold, none() does not.
C9_Witness ==
    /\ outcome = "ok"
    /\ bits = <<255, 255>>
    /\ all(bits) /\ any(bits) /\ ~none(bits)

\* C10: set(i) twice leaves the map as one set(i) does, and reset(i) twice
\* leaves the map as one reset(i) does.
C10_Idempotent ==
    \A i \in InRange(bits) :
        /\ set(set(bits, i).bits, i) = set(bits, i)
        /\ reset(reset(bits, i).bits, i) = reset(bits, i)

\* A two-byte map on which set(10) has acted, and acting again changes nothing.
C10_Witness ==
    /\ outcome = "ok"
    /\ bits = <<0, 4>>
    /\ set(bits, 10).bits = bits
    /\ reset(reset(bits, 10).bits, 10).bits = <<0, 0>>

\* C11: on every map and in-range index, flip(i) applied twice returns bit i
\* to its value and the map to its content, and flip_all applied twice
\* restores every byte.
C11_Involution ==
    /\ \A i \in InRange(bits) :
         LET once == flip(bits, i)
             twice == flip(once.bits, i)
         IN  /\ ~once.panic /\ ~twice.panic
             /\ get_bool(once.bits, i).value # get_bool(bits, i).value
             /\ get_bool(twice.bits, i).value = get_bool(bits, i).value
             /\ twice.bits = bits
    /\ flip_all(flip_all(bits)) = bits
    /\ \A k \in 1 .. BYTES(bits) : flip_all(bits)[k] # bits[k]

\* A two-byte map on which flip(9) turns bit 9 off and a second flip(9) on.
C11_Witness ==
    /\ outcome = "ok"
    /\ bits = <<64, 2>>
    /\ flip(bits, 9).bits = <<64, 0>>
    /\ flip(flip(bits, 9).bits, 9).bits = bits
    /\ flip_all(bits) = <<191, 253>>

\* C12: new() and Default::default() give a map of BYTES bytes whose bits
\* are all 0: get_bool is false at every index, count is 0 and
\* find_first_one is None; every run starts from such a map.
C12_NewIsZero ==
    /\ bits = new(BYTES(bits))
    /\ bits = default(BYTES(bits))
    /\ outcome = "ok"
    /\ [](LET n == BYTES(bits)
              map == new(n)
          IN  /\ default(n) = map
              /\ byte_len(map) = n
              /\ bit_len(map) = 8 * n
              /\ \A i \in 0 .. (8 * n - 1) :
                   /\ ~get_bool(map, i).panic
                   /\ ~get_bool(map, i).value
              /\ count(map) = 0
              /\ find_first_one(map) = None)

\* The state after Bitmap::<2>::new().
C12_Witness ==
    /\ outcome = "ok"
    /\ bits = <<0, 0>>
    /\ bits = new(2)
    /\ count(bits) = 0

\* C13: set_all, reset_all and flip_all never fail; they keep the capacity,
\* leave a map of capacity 0 as it is, and make every bit 1, 0 and the
\* negation of its value before the call.
C13_WholeMap ==
    /\ [](/\ BYTES(set_all(bits)) = BYTES(bits)
          /\ BYTES(reset_all(bits)) = BYTES(bits)
          /\ BYTES(flip_all(bits)) = BYTES(bits)
          /\ \A i \in InRange(bits) :
               /\ get_bool(set_all(bits), i).value
               /\ ~get_bool(reset_all(bits), i).value
               /\ get_bool(flip_all(bits), i).value = ~get_bool(bits, i).value
          /\ BYTES(bits) = 0 =>
               /\ set_all(bits) = bits
               /\ reset_all(bits) = bits
               /\ flip_all(bits) = bits)
    /\ [][(SetAll \/ ResetAll \/ FlipAll) =>
            /\ outcome' = "ok"
            /\ BYTES(bits') = BYTES(bits)]_vars
    /\ [][SetAll => \A i \in InRange(bits) : get_bool(bits', i).value]_vars
    /\ [][ResetAll => \A i \in InRange(bits) : ~get_bool(bits', i).value]_vars
    /\ [][FlipAll => \A i \in InRange(bits) :
            get_bool(bits', i).value = ~get_bool(bits, i).value]_vars

\* A Bitmap<2> after set_all: both bytes are 0xFF.
C13_Witness ==
    /\ outcome = "ok"
    /\ bits = <<255, 255>>
    /\ bits = set_all(new(2))
    /\ flip_all(bits) = reset_all(bits)

\* C14: Bitmap::<N>::from(arr) for an array of M bytes has N bytes; byte k
\* is arr[k] for k < min(N, M) and 0 for M <= k < N, so source bytes at
\* k >= N are dropped; for N = 0 the result is the empty map.
C14_FromArray ==
    /\ (\A value \in SrcArrays :
            LET n == BYTES(bits)
                m == Len(value)
                map == from(n, value)
            IN  /\ BYTES(map) = n
                /\ \A k \in 0 .. (min(n, m) - 1) : __copy_u8(map, k) = value[k + 1]
                /\ \A k \in m .. (n - 1) : __copy_u8(map, k) = 0
                /\ n = 0 => map = new(0))

\* A Bitmap<2> made from a one-byte array: the second byte is zero-filled;
\* made from a three-byte array it drops the third byte.
C14_Witness ==
    /\ outcome = "ok"
    /\ bits = <<162, 0>>
    /\ bits = from(2, <<162>>)
    /\ from(2, <<10, 15, 255>>) = <<10, 15>>

\* C15: for every capacity N and N-byte array a, the array converted into a
\* Bitmap<N> and back is a; for N = 0 it is the empty array.
C15_RoundTrip ==
    /\ [](/\ \A a \in [1 .. BYTES(bits) -> SrcBytes] :
               into(from(BYTES(bits), a)) = a
          /\ into(from(BYTES(bits), bits)) = bits
          /\ BYTES(bits) = 0 => into(from(0, bits)) = <<>>)
    /\ [][Into => /\ ret'.kind = "array"
                  /\ ret'.arr = bits
                  /\ bits' = bits]_vars

\* The array [10, 162] has come back from a Bitmap<2> built from it.
C15_Witness ==
    /\ outcome = "ok"
    /\ bits = <<10, 162>>
    /\ ret = [kind |-> "array", arr |-> <<10, 162>>, int |-> 0]

\* C16: Bitmap::<N>::from(x) for an integer x of W bytes is from() of x's
\* little-endian bytes: bit i of the map is bit i of x's two's-complement
\* value for i < 8 * min(N, W), and every bit at i >= 8 * W is 0.
C16_FromInt ==
    /\ (\A x \in SrcInts :
            LET n == BYTES(bits)
                w == x.width
                map == from_int(n, x)
                le == [k \in 1 .. w |-> (x.value \div (256 ^ (k - 1))) % 256]
            IN  /\ map = from(n, le)
                /\ BYTES(map) = n
                /\ \A i \in 0 .. (8 * min(n, w) - 1) :
                     get_bool(map, i).value = ((x.value \div (2 ^ i)) % 2 = 1)
                /\ \A i \in (8 * w) .. (8 * n - 1) : ~get_bool(map, i).value)

\* from(0b00001111_00001010u16) into two bytes: [0b00001010, 0b00001111].
C16_Witness ==
    /\ outcome = "ok"
    /\ bits = <<10, 15>>
    /\ bits = from_int(2, IntOf(2, 3850))
    /\ from_int(2, IntOf(1, -94)) = <<162, 0>>

\* C17: &map & arr for a map of N bytes and an array of M bytes leaves the
\* map unchanged and returns M bytes: out[k] = map byte k AND arr[k] for
\* k < min(N, M) and out[k] = 0 for N <= k < M; the integer overloads return
\* the integer whose bytes are that result.
C17_BitAnd ==
    /\ [](\A rhs \in SrcArrays :
            LET n == BYTES(bits)
                m == Len(rhs)
                out == bitand(bits, rhs)
            IN  /\ Len(out) = m
                /\ \A k \in 0 .. (min(n, m) - 1) :
                     out[k + 1] = u8_bitand(__copy_u8(bits, k), rhs[k + 1])
                /\ \A k \in n .. (m - 1) : out[k + 1] = 0)
    /\ [](\A x \in SrcUnsigned :
            LET r == bitand_int(bits, x)
            IN  /\ r.width = x.width
                /\ transmute(r) = bitand(bits, transmute(x))
                /\ \A k \in 0 .. (x.width - 1) :
                     (r.value \div (256 ^ k)) % 256 =
                         IF k < BYTES(bits)
                         THEN u8_bitand(__copy_u8(bits, k),
                                        (x.value \div (256 ^ k)) % 256)
                         ELSE 0)
    /\ [][bits' = bits \/ ~(\E rhs \in SrcArrays : BitAnd(rhs))]_vars
    /\ [][bits' = bits \/ ~(\E x \in SrcUnsigned : BitAndInt(x))]_vars

\* A Bitmap<1> holding 0b10100010, ANDed with three bytes of 0xFF: the two
\* bytes past the map come back 0.
C17_Witness ==
    /\ outcome = "ok"
    /\ bits = <<162>>
    /\ ret = [kind |-> "array", arr |-> <<162, 0, 0>>, int |-> 0]

\* C18: after map &= arr, for a map of N bytes and an array or integer of M
\* bytes, byte k is the old byte k AND arr[k] for k < min(N, M), and every
\* byte k with M <= k < N is 0.
C18_BitAndAssign ==
    /\ (\A rhs \in SrcArrays \cup {transmute(x) : x \in SrcUnsigned} :
            LET n == BYTES(bits)
                m == Len(rhs)
                map == bitand_assign(bits, rhs)
            IN  /\ BYTES(map) = n
                /\ \A k \in 0 .. (min(n, m) - 1) :
                     __copy_u8(map, k) = u8_bitand(__copy_u8(bits, k), rhs[k + 1])
                /\ \A k \in m .. (n - 1) : __copy_u8(map, k) = 0)
    /\ (\A x \in SrcUnsigned :
            bitand_assign_int(bits, x) = bitand_assign(bits, transmute(x)))
    /\ (\A x \in SrcUnsigned, i \in InRange(bits) :
            get_bool(bitand_assign_int(bits, x), i).value =
                /\ get_bool(bits, i).value
                /\ i < 8 * x.width
                /\ (x.value \div (2 ^ i)) % 2 = 1)

\* A Bitmap<2> whose first byte kept its bits under the operand's mask and
\* whose second byte, past a one-byte operand, is 0.
C18_Witness ==
    /\ outcome = "ok"
    /\ bits = <<2, 0>>
    /\ bits = bitand_assign(<<10, 255>>, <<162>>)
    /\ bits = bitand_assign_int(<<10, 255>>, IntOf(1, 162))

\* C19: after map |= arr, for a map of N bytes and an array or integer of M
\* bytes, byte k is the old byte k OR arr[k] for k < min(N, M) and every
\* byte k >= min(N, M) is unchanged; Bitmap::<16>::new() |= 0b10100010u8
\* has exactly bits 1, 5 and 7 set.
C19_BitOrAssign ==
    /\ (\A rhs \in SrcArrays \cup {transmute(x) : x \in SrcUnsigned} :
            LET n == BYTES(bits)
                m == Len(rhs)
                map == bitor_assign(bits, rhs)
            IN  /\ BYTES(map) = n
                /\ \A k \in 0 .. (min(n, m) - 1) :
                     __copy_u8(map, k) = u8_bitor(__copy_u8(bits, k), rhs[k + 1])
                /\ \A k \in min(n, m) .. (n - 1) :
                     __copy_u8(map, k) = __copy_u8(bits, k))
    /\ (\A x \in SrcUnsigned :
            bitor_assign_int(bits, x) = bitor_assign(bits, transmute(x)))
    /\ (LET map == bitor_assign_int(new(16), IntOf(1, 162))
          IN  {i \in 0 .. 127 : get_bool(map, i).value} = {1, 5, 7})
    /\ (\A x \in SrcUnsigned, i \in InRange(bits) :
            get_bool(bitor_assign_int(bits, x), i).value =
                \/ get_bool(bits, i).value
                \/ i < 8 * x.width /\ (x.value \div (2 ^ i)) % 2 = 1)

\* A Bitmap<2> holding [10, 15] after |= 0b10100010u8: the first byte has
\* gained bits 5 and 7 and the second byte is as it was.
C19_Witness ==
    /\ outcome = "ok"
    /\ bits = <<170, 15>>
    /\ bits = bitor_assign_int(<<10, 15>>, IntOf(1, 162))
    /\ {i \in InRange(bits) : get_01(bits, i).value = 1} = {1, 3, 5, 7, 8, 9, 10, 11}

\* C20: after fill_prefix(src), for a map of N bytes and an array or integer
\* of M bytes, byte k is src byte k for k < min(N, M), whatever it was
\* before, and every byte k >= min(N, M) is unchanged.
C20_FillPrefix ==
    /\ (\A value \in SrcArrays \cup {transmute(x) : x \in SrcInts} :
            LET n == BYTES(bits)
                m == Len(value)
                map == fill_prefix(bits, value)
            IN  /\ BYTES(map) = n
                /\ \A k \in 0 .. (min(n, m) - 1) :
                     __copy_u8(map, k) = value[k + 1]
                /\ \A k \in min(n, m) .. (n - 1) :
                     __copy_u8(map, k) = __copy_u8(bits, k))
    /\ (\A x \in SrcInts :
            fill_prefix_int(bits, x) = fill_prefix(bits, transmute(x)))
    /\ (\A x \in SrcInts, i \in InRange(bits) :
            get_bool(fill_prefix_int(bits, x), i).value =
                IF i < 8 * x.width THEN (x.value \div (2 ^ i)) % 2 = 1
                ELSE get_bool(bits, i).value)

\* A Bitmap<2> holding [255, 162] after fill_prefix([10]): the first byte is
\* the source's, bits cleared included, and the second byte is as it was.
C20_Witness ==
    /\ outcome = "ok"
    /\ bits = <<10, 162>>
    /\ bits = fill_prefix(<<255, 162>>, <<10>>)
    /\ bits = fill_prefix_int(<<15, 162>>, IntOf(1, 10))

\* The digit of bit index of the map.
DigitOf(map, index) ==
    ZERO + ((map[(index \div 8) + 1] \div (2 ^ (index % 8))) % 2)

\* Bits j down to start, one digit each, a space after each bit 8k that is
\* not the last one written.
RECURSIVE Rendered(_, _, _)
Rendered(map, start, j) ==
    <<DigitOf(map, j)>>
    \o (IF j > start
        THEN (IF j % 8 = 0 THEN <<SPACE>> ELSE <<>>) \o Rendered(map, start, j - 1)
        ELSE <<>>)

\* The range is inside the map and not empty.
ValidRange(map, start, end) ==
    ~(start >= end \/ start \div 8 >= BYTES(map) \/ (end - 1) \div 8 >= BYTES(map))

\* C21: range_to_string never panics, end = 0 included; it returns None
\* exactly when start >= end, or start >> 3 >= N, or (end - 1) >> 3 >= N, and
\* Some otherwise; a map of no bytes gives None for every pair.
C21_RangeOption ==
    /\ outcome = "ok"
    /\ \A start, end \in FmtIndices \cup FarIndices :
           LET r == range_to_string(bits, start, end)
           IN  /\ ~r.panic
               /\ r.some = ValidRange(bits, start, end)
               /\ (BYTES(bits) = 0 => ~r.some)
    /\ (ret.kind = "None" => ret.arr = <<>>)

\* Both answers are given on a full map: a range ending at the capacity is
\* Some, and this state holds a None taken from a non-zero map.
C21_Witness ==
    /\ BYTES(bits) = FmtBytes
    /\ bits # new(FmtBytes)
    /\ ret.kind = "None"
    /\ range_to_string(bits, 0, 8 * FmtBytes).some
    /\ ~range_to_string(bits, 0, 0).some
    /\ ~range_to_string(bits, 0, 8 * FmtBytes + 1).some

\* C22: for a valid range the string holds '0'/'1' for bits end-1 down to
\* start, one space between bit 8k and bit 8k-1 when both are in the range,
\* so its length is (end - start) + ((end-1) >> 3) - (start >> 3), with no
\* leading or trailing space; on 00010000 00100010, (7, 9) gives "0 0" and
\* (5, 6) gives "1".
C22_RangeString ==
    /\ \A start, end \in FmtIndices :
           ValidRange(bits, start, end) =>
               LET s == range_to_string(bits, start, end).contents
               IN  /\ s = Rendered(bits, start, end - 1)
                   /\ Len(s) = (end - start) + ((end - 1) \div 8) - (start \div 8)
                   /\ s[1] # SPACE
                   /\ s[Len(s)] # SPACE
                   /\ \A k \in 1 .. Len(s) : s[k] \in {ZERO, ZERO + 1, SPACE}
    /\ bits = TestRangeMap =>
           /\ range_to_string(bits, 7, 9) = SomeString(<<48, 32, 48>>)
           /\ range_to_string(bits, 5, 6) = SomeString(<<49>>)
           /\ range_to_string(bits, 7, 8) = SomeString(<<48>>)
    /\ (ret.kind = "Some" =>
           \E start, end \in FmtIndices :
               /\ ValidRange(bits, start, end)
               /\ ret.arr = Rendered(bits, start, end - 1))

\* "0 0" was returned for bits 8 and 7 of the test's map.
C22_Witness ==
    /\ bits = TestRangeMap
    /\ ret = [kind |-> "Some", arr |-> <<48, 32, 48>>, int |-> 0]

\* A byte in binary, most significant bit first.
Binary(byte) == [k \in 1 .. 8 |-> ZERO + ((byte \div (2 ^ (8 - k))) % 2)]

\* What Display shows of a map.
Shown(map) ==
    <<91>> \o to_string(8 * BYTES(map)) \o <<32, 98, 105, 116, 115, 93, 32>>
    \o (IF BYTES(map) > 2 THEN <<46, 46, 46>> ELSE <<>>)
    \o (IF BYTES(map) >= 2 THEN Binary(map[2]) \o <<32>> ELSE <<>>)
    \o (IF BYTES(map) >= 1 THEN Binary(map[1]) ELSE <<>>)

\* C23: Display renders "[<8*N> bits] " and then at most two bytes in
\* binary, byte 1 before byte 0, with a space between them, and with "..."
\* before them exactly when the map has more than two bytes; a 3-byte map
\* with bits 0 and 8 set renders "[24 bits] ...00000001 00000001".
C23_Display ==
    /\ fmt(bits) = Shown(bits)
    /\ (ret.kind = "String" => ret.arr = Shown(bits))
    /\ bits = TestDisplayMap =>
           fmt(bits) = <<91, 50, 52, 32, 98, 105, 116, 115, 93, 32, 46, 46, 46,
                         48, 48, 48, 48, 48, 48, 48, 49, 32,
                         48, 48, 48, 48, 48, 48, 48, 49>>

\* The 3-byte map with bits 0 and 8 has been displayed.
C23_Witness ==
    /\ bits = TestDisplayMap
    /\ ret.kind = "String"
    /\ Len(ret.arr) = 30

\* C24: the 64-bit map newmap!(;64), a Bitmap<8>, filled with the 8 bytes
\* of `some`, counts 15 bits, 49 after flip_all and 64 after set_all; a
\* Bitmap<64> holds 512 bits and counts 15, then 497, then 512.
C24_CountScenario ==
    LET filled == fill_prefix(newmap(AdvancedOpBits), some_array)
        wide == fill_prefix(new(Bitmap64Bytes), some_array)
    IN  /\ BYTES(filled) = 8
        /\ count(newmap(AdvancedOpBits)) = 0
        /\ count(filled) = 15
        /\ count(flip_all(filled)) = 49
        /\ count(set_all(flip_all(filled))) = 64
        /\ count(wide) = 15
        /\ count(flip_all(wide)) = 497
        /\ count(set_all(flip_all(wide))) = 512
        /\ (ret.kind = "int" /\ bits = filled => ret.int = 15)
        /\ (ret.kind = "int" /\ bits = flip_all(filled) => ret.int = 49)
        /\ (ret.kind = "int" /\ bits = set_all(filled) => ret.int = 64)
        /\ (ret.kind = "int" /\ bits = flip_all(wide) => ret.int = 497)
        /\ (ret.kind = "int" /\ bits = set_all(wide) => ret.int = 512)

\* The filled and flipped 64-bit map has been counted.
C24_Witness ==
    /\ bits = flip_all(fill_prefix(newmap(AdvancedOpBits), some_array))
    /\ ret = [kind |-> "int", arr |-> <<>>, int |-> 49]

\* C24 as stated, of a Bitmap<64>: 15, then 49 after flip_all, then 64
\* after set_all.
C24_AsStated ==
    LET wide == fill_prefix(new(Bitmap64Bytes), some_array)
    IN  /\ (ret.kind = "int" /\ bits = wide => ret.int = 15)
        /\ (ret.kind = "int" /\ bits = flip_all(wide) => ret.int = 49)
        /\ (ret.kind = "int" /\ bits = set_all(wide) => ret.int = 64)

\* Bit j of the integer's memory representation.
FlagBit(int, j) ==
    /\ j < 8 * int.width
    /\ j < 31
    /\ (int.value \div (2 ^ j)) % 2 = 1

\* Bit j of the map, read from its bytes.
BitOf(map, j) == (map[(j \div 8) + 1] \div (2 ^ (j % 8))) % 2 = 1

\* n rounded up to a multiple of 8.
RoundUp8(n) == CHOOSE m \in n .. (n + 7) : m % 8 = 0

\* C25: newmap!(;n) is an all-zero map of (n + 7) >> 3 bytes, whose bit_len
\* is n rounded up to a multiple of 8 (0 for newmap!(), 40 for
\* newmap!(;35)); newmap!(f1 | f2; n) is that map OR-assigned with each flag
\* in turn, and he_lang!(i1 | i2; n) is that map after set(i) for each index.
C25_Macros ==
    /\ \E n \in MacroLens : BYTES(bits) = (n + 7) \div 8
    /\ bit_len(bits) \in {RoundUp8(n) : n \in MacroLens}
    /\ bit_len(newmap_empty) = 0
    /\ bit_len(newmap(35)) = 40
    /\ \A n \in MacroLens :
           /\ BYTES(newmap(n)) = (n + 7) \div 8
           /\ bit_len(newmap(n)) = RoundUp8(n)
           /\ \A j \in 0 .. (bit_len(newmap(n)) - 1) : ~BitOf(newmap(n), j)
           /\ \A flags \in FlagLists :
                  LET map == newmap_flags(flags, n)
                  IN  /\ BYTES(map) = (n + 7) \div 8
                      /\ \A j \in 0 .. (bit_len(map) - 1) :
                             BitOf(map, j) <=>
                                 \E k \in 1 .. Len(flags) : FlagBit(flags[k], j)
           /\ \A idxs \in IndexLists :
                  LET r == he_lang(idxs, n)
                      len == RoundUp8(n)
                  IN  /\ r.panic <=> \E k \in 1 .. Len(idxs) : idxs[k] >= len
                      /\ ~r.panic =>
                             /\ BYTES(r.bits) = (n + 7) \div 8
                             /\ \A j \in 0 .. (len - 1) :
                                    BitOf(r.bits, j) <=>
                                        \E k \in 1 .. Len(idxs) : idxs[k] = j

\* he_lang!(1 | 2; 8) of the test has built its map.
C25_Witness ==
    /\ bits = <<6>>
    /\ outcome = "ok"
    /\ he_lang(<<1, 2>>, 8).bits = bits

\* C26: on a map of no bytes find_first_one and find_first_zero return None,
\* count is 0, every single-bit accessor and mutator fails for every index,
\* none() and all() are true and any() is false.
C26_ZeroCapacity ==
    BYTES(bits) = 0 =>
        /\ find_first_one(bits) = None
        /\ find_first_zero(bits) = None
        /\ count(bits) = 0
        /\ none(bits)
        /\ all(bits)
        /\ ~any(bits)
        /\ \A i \in Indices \cup FarIndices :
               /\ get_bool(bits, i).panic
               /\ get_01(bits, i).panic
               /\ test(bits, i).panic
               /\ set(bits, i).panic
               /\ reset(bits, i).panic
               /\ flip(bits, i).panic
               /\ at(bits, i).panic
               /\ at_mut(bits, i).panic
        /\ set_all(bits) = bits
        /\ flip_all(bits) = bits

\* A single-bit call on the map of no bytes has failed.
C26_Witness == bits = <<>> /\ outcome = "panic"

\* Every bit j # i of after is as in before: the bytes other than i's are
\* equal, and in i's byte the two differ in no bit but bit i.
OnlyBitMayDiffer(before, after, i) ==
    /\ BYTES(after) = BYTES(before)
    /\ \A k \in 1 .. BYTES(before) :
           IF k = (i \div 8) + 1
           THEN \A b \in (0 .. 7) \ {i % 8} :
                    (after[k] \div (2 ^ b)) % 2 = (before[k] \div (2 ^ b)) % 2
           ELSE after[k] = before[k]

\* C27: set, reset and flip of the map, and of a BitRefMut taken at index i,
\* leave every bit j # i as it was, and the wrapper's operation leaves the
\* map as the map's own operation at i does.
C27_Frame ==
    \A i \in InRange(bits) :
        LET w == at_mut(bits, i).ref
        IN  /\ OnlyBitMayDiffer(bits, set(bits, i).bits, i)
            /\ OnlyBitMayDiffer(bits, reset(bits, i).bits, i)
            /\ OnlyBitMayDiffer(bits, flip(bits, i).bits, i)
            /\ OnlyBitMayDiffer(bits, BitRefMut_set(bits, w).bits, i)
            /\ OnlyBitMayDiffer(bits, BitRefMut_reset(bits, w).bits, i)
            /\ OnlyBitMayDiffer(bits, BitRefMut_flip(bits, w).bits, i)
            /\ BitRefMut_set(bits, w).bits = set(bits, i).bits
            /\ BitRefMut_reset(bits, w).bits = reset(bits, i).bits
            /\ BitRefMut_flip(bits, w).bits = flip(bits, i).bits

\* Bits 1 and 14 have been written and their neighbours in both bytes, set
\* before, are still set.
C27_Witness == bits = <<7, 224>> /\ outcome = "ok"

\* C28: count is bit_len - count after flip_all, bit_len after set_all, and
\* 0 after reset_all and on a new map.
C28_CountWhole ==
    /\ count(flip_all(bits)) = bit_len(bits) - count(bits)
    /\ count(set_all(bits)) = bit_len(bits)
    /\ count(reset_all(bits)) = 0
    /\ count(new(BYTES(bits))) = 0
    /\ count(default(BYTES(bits))) = 0
    /\ count(bits) = Cardinality({j \in InRange(bits) : get_bool(bits, j).value})

\* A two-byte map with 3 bits set, whose flip_all holds the other 13.
C28_Witness ==
    /\ bits = <<129, 16>>
    /\ count(bits) = 3
    /\ count(flip_all(bits)) = 13

\* C30: a set, reset, flip, at or at_mut that fails out of range leaves
\* every byte as it was: the range check comes before any write.
C30_FailedCallWritesNothing ==
    /\ [](\A i \in Indices \cup FarIndices :
              /\ set(bits, i).panic => set(bits, i).bits = bits
              /\ reset(bits, i).panic => reset(bits, i).bits = bits
              /\ flip(bits, i).panic => flip(bits, i).bits = bits)
    /\ [][outcome' = "panic" => bits' = bits]_vars

\* A call has failed on a one-byte map whose bits 1 and 5 stay set.
C30_Witness == outcome = "panic" /\ bits = <<34>>

\* Lines 1 to 8 allocated and line 7 freed.
SevenFreed == <<127, 1, 0, 0, 0, 0, 0, 0>>

\* C29: while deallocate is only given lines that allocate returned (or
\* lines outside the page), the cacheline manager's allocate never returns
\* Realloc and never hands out line 0 or an allocated line, in either
\* build; it returns the lowest free line
\* (7 after lines 1..8 were allocated and 7 freed) and Oom exactly when all
\* 63 lines are allocated; deallocating a line twice returns Unallocated.
C29_Manager ==
    /\ [](/\ BYTES(bits) = 8
          /\ BitOf(bits, 0)
          /\ outcome = "ok"
          /\ ret.kind \notin {"Realloc", "panic"}
          /\ \A w \in {1, 2, 4} :
                 newmap_flags(<<IntOf(w, 1)>>, 64) = CachelineManager_new
          /\ allocate(bits) # {}
          /\ \A a \in allocate(bits) :
                 /\ a.kind \in {"Allocated", "Oom"}
                 /\ a.kind = "Oom" <=> \A j \in 1 .. LINECNT : BitOf(bits, j)
                 /\ a.kind = "Allocated" =>
                        /\ a.idx \in 1 .. LINECNT
                        /\ ~BitOf(bits, a.idx)
                        /\ \A j \in 0 .. (a.idx - 1) : BitOf(bits, j)
                        /\ \A j \in 0 .. 63 :
                               BitOf(a.bits, j) <=> (j = a.idx \/ BitOf(bits, j))
          /\ (bits = SevenFreed => \A a \in allocate(bits) : a.idx = 7)
          /\ \A line \in 1 .. LINECNT :
                 BitOf(bits, line) =>
                     /\ deallocate(bits, line).kind = "Deallocated"
                     /\ deallocate(deallocate(bits, line).bits, line).kind
                            = "Unallocated"
                     /\ deallocate(deallocate(bits, line).bits, line).bits
                            = deallocate(bits, line).bits
          /\ (ret.kind = "Allocated" => ret.int \in 1 .. LINECNT /\ BitOf(bits, ret.int))
          /\ (ret.kind = "Oom" => \A j \in 0 .. LINECNT : BitOf(bits, j))
          /\ (ret.kind \in {"Unallocated", "Deallocated"} =>
                  ret.int \in 1 .. LINECNT /\ ~BitOf(bits, ret.int)))
    /\ [][ret'.kind = "Allocated" =>
              /\ ~BitOf(bits, ret'.int)
              /\ \A j \in 0 .. (ret'.int - 1) : BitOf(bits, j)]_vars

\* All 63 lines are allocated and allocate has answered Oom.
C29_Witness ==
    /\ ret.kind = "Oom"
    /\ count(bits) = 64

====
